---- MODULE Spec2Model ----
(***************************************************************************)
(* Farm work log: the CSV import of src/app.py (page_csv_import,           *)
(* _convert_date, _get_val) and the persistence call it ends with          *)
(* (src/database.py import_csv_records).                                   *)
(*                                                                         *)
(* Spec follows one browser session up to the end of its first import run: *)
(* the sidebar events, the upload, the column select boxes, the import     *)
(* button and the loop over df.iterrows(), one action per iteration.  The  *)
(* cells of a row are drawn when the iteration reads the row.  SpecDate    *)
(* applies _convert_date to a wide pool of cell texts.                     *)
(*                                                                         *)
(* Text is modelled by TLA+ strings; a character is a string of length 1.  *)
(* The module is ASCII only, so the Japanese literals of the source are    *)
(* written by name: NONE_LABEL is the select box entry for "no column",    *)
(* DEFAULT_WORK_TYPE is the work type "sonota" (other).                    *)
(***************************************************************************)
EXTENDS Integers, Sequences, FiniteSets, TLC

(***************************************************************************)
(* Bounds of the model.                                                    *)
(***************************************************************************)
MaxGenLen == 5

(***************************************************************************)
(* Python text primitives used by the import code.                         *)
(***************************************************************************)
Char(s, k) == SubSeq(s, k, k)

Whitespace == {" ", "\t"}

Digits == {"0", "1", "2", "3", "4", "5", "6", "7", "8", "9"}

RECURSIVE LStrip(_)
LStrip(s) ==
    IF s = "" THEN ""
    ELSE IF Char(s, 1) \in Whitespace THEN LStrip(SubSeq(s, 2, Len(s)))
    ELSE s

RECURSIVE RStrip(_)
RStrip(s) ==
    IF s = "" THEN ""
    ELSE IF Char(s, Len(s)) \in Whitespace THEN RStrip(SubSeq(s, 1, Len(s) - 1))
    ELSE s

\* str.strip()
Strip(s) == RStrip(LStrip(s))

\* c in s, for a single character c
Contains(s, c) == \E k \in 1..Len(s) : Char(s, k) = c

\* str.split(sep), for a single character sep: a tuple of strings
RECURSIVE Split(_, _)
Split(s, sep) ==
    IF s = "" THEN <<"">>
    ELSE LET rest == Split(SubSeq(s, 2, Len(s)), sep)
         IN  IF Char(s, 1) = sep
             THEN <<"">> \o rest
             ELSE <<Char(s, 1) \o rest[1]>> \o SubSeq(rest, 2, Len(rest))

\* str.isdigit() on ASCII text
IsDigit(s) == s # "" /\ \A k \in 1..Len(s) : Char(s, k) \in Digits

DigitVal(c) == CHOOSE n \in 0..9 : Char("0123456789", n + 1) = c

\* The digits-and-underscores body of an integer literal: digits, single
\* underscores only between digits.
IntBodyOk(b) ==
    /\ b # ""
    /\ \A k \in 1..Len(b) : Char(b, k) \in Digits \cup {"_"}
    /\ Char(b, 1) \in Digits
    /\ Char(b, Len(b)) \in Digits
    /\ \A k \in 1..(Len(b) - 1) : ~(Char(b, k) = "_" /\ Char(b, k + 1) = "_")

RECURSIVE IntBodyVal(_, _)
IntBodyVal(b, acc) ==
    IF b = "" THEN acc
    ELSE IF Char(b, 1) = "_" THEN IntBodyVal(SubSeq(b, 2, Len(b)), acc)
    ELSE IntBodyVal(SubSeq(b, 2, Len(b)), 10 * acc + DigitVal(Char(b, 1)))

HasSign(t) == t # "" /\ Char(t, 1) \in {"+", "-"}

IntBody(t) == IF HasSign(t) THEN SubSeq(t, 2, Len(t)) ELSE t

\* int(s) succeeds (does not raise ValueError): surrounding whitespace, an
\* optional sign, then the body.
IntOk(s) == IntBodyOk(IntBody(Strip(s)))

\* int(s), when IntOk(s)
IntVal(s) ==
    LET t == Strip(s)
        v == IntBodyVal(IntBody(t), 0)
    IN  IF HasSign(t) /\ Char(t, 1) = "-" THEN 0 - v ELSE v

RECURSIVE NatStr(_)
NatStr(n) ==
    IF n < 10 THEN Char("0123456789", n + 1)
    ELSE NatStr(n \div 10) \o Char("0123456789", (n % 10) + 1)

RECURSIVE ZFill(_, _)
ZFill(s, w) == IF Len(s) >= w THEN s ELSE ZFill("0" \o s, w)

\* format(n, "0<w>d"): zero padding to width w, the sign counted in the width
FormatD(n, w) ==
    IF n < 0 THEN "-" \o ZFill(NatStr(0 - n), w - 1) ELSE ZFill(NatStr(n), w)

\* Python's None; no stripped cell text starts with a space
None == " None"

(***************************************************************************)
(* _convert_date and its three forms.                                      *)
(***************************************************************************)
\* the slash form matches: three parts, each an int
SlashMatch(s) ==
    /\ Contains(s, "/")
    /\ LET parts == Split(s, "/")
       IN  /\ Len(parts) = 3
           /\ \A k \in 1..3 : IntOk(parts[k])

\* int() raises ValueError: three parts, one of them not an int (line 874)
SlashRaises(s) ==
    /\ Contains(s, "/")
    /\ LET parts == Split(s, "/")
       IN  /\ Len(parts) = 3
           /\ \E k \in 1..3 : ~IntOk(parts[k])

\* variant: the except clause names another exception
SlashCatchesIndexError(exc) == exc = "IndexError"

\* line 878: except ValueError
SlashCatches(exc) == exc = "ValueError"

\* variant: the two-digit year taken for a year of the 1900s
SlashYear1900(y) == IF y < 100 THEN y + 1900 ELSE y

SlashYear(y) == IF y < 100 THEN y + 2000 ELSE y

SlashResult(s) ==
    LET parts == Split(s, "/")
        y == SlashYear(IntVal(parts[1]))
    IN  FormatD(y, 4) \o "-" \o FormatD(IntVal(parts[2]), 2)
                      \o "-" \o FormatD(IntVal(parts[3]), 2)

\* variant: the hyphen form asks for a four-digit year
HyphenMatchDigits(s) == Contains(s, "-") /\ Len(s) = 10 /\ IsDigit(SubSeq(s, 1, 4))

HyphenMatch(s) == Contains(s, "-") /\ Len(s) = 10

EightMatch(s) == Len(s) = 8 /\ IsDigit(s)

\* variant: day and month sliced in the other order
EightResultSwapped(s) == SubSeq(s, 1, 4) \o "-" \o SubSeq(s, 7, 8) \o "-" \o SubSeq(s, 5, 6)

EightResult(s) == SubSeq(s, 1, 4) \o "-" \o SubSeq(s, 5, 6) \o "-" \o SubSeq(s, 7, 8)

\* variant: an unparseable date clears the date instead of inheriting it
NoMatchClears(raw_date, prev_date) == ""

\* line 892: no form matched
NoMatch(raw_date, prev_date) == prev_date

_convert_date(raw_date, prev_date) ==
    IF raw_date = "" \/ raw_date = "nan" THEN prev_date
    ELSE LET s == Strip(raw_date)
         IN  IF SlashMatch(s) THEN SlashResult(s)
             ELSE IF HyphenMatch(s) THEN s
             ELSE IF EightMatch(s) THEN EightResult(s)
             ELSE NoMatch(raw_date, prev_date)

\* the exception that leaves _convert_date; None when it returns.  int() is
\* the only call of the function that can raise: formatting an int and slicing
\* a str never do.
ConvertDateRaises(raw_date) ==
    IF raw_date = "" \/ raw_date = "nan" THEN None
    ELSE IF SlashRaises(Strip(raw_date)) /\ ~SlashCatches("ValueError") THEN "ValueError"
    ELSE None

(***************************************************************************)
(* Inputs of the date conversion.                                          *)
(***************************************************************************)
GenAlphabet == {"1", "/", "-", " ", "a"}

RECURSIVE GenStrings(_)
GenStrings(n) ==
    IF n = 0 THEN {""}
    ELSE LET shorter == GenStrings(n - 1)
         IN  shorter \cup {s \o c : s \in {t \in shorter : Len(t) = n - 1}, c \in GenAlphabet}

DateTexts ==
    { "", " ", "nan", "2024-01-05", "2024/02/10", "24/3/1", "20240115",
      "not-a-date", "2024/1/5", "99/12/31", "100/1/1", "2024/13/45",
      "2024/01/-1", "1/2", "1/2/3/4", "a/b/c", "2024/x/1", "2024-1-5",
      "2024.01.05", "abcdefgh-i", "12345678", "1234567", "123456789",
      "2024/1_0/5", "+24/3/1", "2024/ 3 / 1", "12345/1/1", "2024/100/1",
      "-5/1/1", "2024-01-05x", " 2024-01-05 ", "0/0/0", "2024/1/", "1234-678",
      "2024/1__0/5", "-3000/1/1" }

DateCellPool == DateTexts \cup GenStrings(MaxGenLen)

PrevDates == {"", "2023-12-31", "2024-01-05"}

(***************************************************************************)
(* The uploaded table and the column mapping.                              *)
(***************************************************************************)
MaxRows == 2

\* the select box entry for "no column" (src/app.py line 803)
NONE_LABEL == "(none)"

\* work_type given to a row without one (src/app.py line 833)
DEFAULT_WORK_TYPE == "sonota"

ADMIN_PASSWORD == "farm2026"

Passwords == {ADMIN_PASSWORD, "guess"}

\* df.columns of an uploaded file with three columns
Columns == <<"c1", "c2", "c3">>

\* the options of every column select box
cols == <<NONE_LABEL>> \o Columns

\* str(cell) of a cell of each column; "nan" is str() of an empty CSV cell
DateCells == {"nan", "2024-01-05", "2024/02/10", "not-a-date", "bad", "2024/x/1"}

TypeCells == {"nan", " ", " seeding "}

TextCells == {"nan", " ", " x "}

Rows == [c1 : DateCells, c2 : TypeCells, c3 : TextCells]

NoRow == [c1 |-> "", c2 |-> "", c3 |-> ""]

\* the date column of the carry-forward example
ExampleDates == <<"2024-01-05", "nan", "nan", "2024/02/10", "nan">>

\* the preselected entry of the k-th select box: index=min(k, len(cols) - 1)
DefaultCol(k) == cols[(IF k < Len(cols) - 1 THEN k ELSE Len(cols) - 1) + 1]

ColChoices == {cols[k] : k \in 1..Len(cols)}

\* the mappings a user picks in the six select boxes
Fields == {"date", "work_type", "field_id", "row_id", "content", "note"}

\* the mappings a user picks in the six select boxes: every field at its
\* preselected column or at "no column", the three id and note fields alike
Mappings ==
    {m \in [date : {NONE_LABEL, DefaultCol(1)}, work_type : {NONE_LABEL, DefaultCol(2)},
            field_id : {NONE_LABEL, DefaultCol(3)}, row_id : {NONE_LABEL, DefaultCol(4)},
            content : {NONE_LABEL, DefaultCol(5)}, note : {NONE_LABEL, DefaultCol(6)}] :
        /\ (m.field_id = NONE_LABEL) = (m.row_id = NONE_LABEL)
        /\ (m.field_id = NONE_LABEL) = (m.note = NONE_LABEL)}

\* row.get(col, ""): the cell of the row under a column label
RowGet(r, col) ==
    IF col = "c1" THEN r.c1
    ELSE IF col = "c2" THEN r.c2
    ELSE IF col = "c3" THEN r.c3
    ELSE IF col = "c4" THEN r.c4
    ELSE IF col = "c5" THEN r.c5
    ELSE IF col = "c6" THEN r.c6
    ELSE ""

\* variant: only the empty string is taken for an empty cell
GetValEmptyNoNan(val) == val = ""

\* line 900
GetValEmpty(val) == val = "nan" \/ val = ""

_get_val(r, col_name) ==
    IF col_name = NONE_LABEL THEN None
    ELSE LET val == Strip(RowGet(r, col_name))
         IN  IF GetValEmpty(val) THEN None ELSE val

\* truth value of a str or None
Truthy(v) == v # None /\ v # ""

\* lines 820-822
RawDateOf(r, col) == IF col # NONE_LABEL THEN Strip(RowGet(r, col)) ELSE ""

\* variant: the "nan" test forgotten
WorkTypeMissingNoNan(t) == ~Truthy(t)

WorkTypeMissing(t) == ~Truthy(t) \/ t = "nan"

\* lines 829-833
WorkTypeOf(r, col) ==
    LET t == IF col # NONE_LABEL THEN Strip(RowGet(r, col)) ELSE ""
    IN  IF WorkTypeMissing(t) THEN DEFAULT_WORK_TYPE ELSE t

\* variant: content compared with the empty string only
SkipRowEmptyString(wd, c) == ~Truthy(wd) /\ c = ""

\* variant: the content test forgotten
SkipRowDateOnly(wd, c) == ~Truthy(wd)

\* line 842
SkipRow(wd, c) == ~Truthy(wd) /\ ~Truthy(c)

\* variant: the carried date never updated
NextPrevKept(wd, prev) == prev

\* lines 825-826
NextPrev(wd, prev) == IF Truthy(wd) THEN wd ELSE prev

(***************************************************************************)
(* The encodings tried on an uploaded file: lines 784-795.                 *)
(***************************************************************************)
\* variant: the list without its last candidate
ENCODINGS_WithoutLatin1 == <<"cp932", "shift_jis", "utf-8", "utf-8-sig">>

ENCODINGS == <<"cp932", "shift_jis", "utf-8", "utf-8-sig", "latin1">>

EncodingSet == {"cp932", "shift_jis", "utf-8", "utf-8-sig", "latin1"}

\* variant: the loop goes on after a parse that did not raise
BreakAfterNever(ok) == FALSE

\* line 789: break after a parse that did not raise
BreakAfter(ok) == ok

\* the for loop of lines 785-791 from the k-th candidate on.  F holds the
\* encodings under which pd.read_csv raises on the uploaded bytes; enc is the
\* encoding df was parsed under so far (None: df is None), tr the candidates
\* tried so far.
RECURSIVE ReadCsv(_, _, _, _)
ReadCsv(k, F, enc, tr) ==
    IF k > Len(ENCODINGS) THEN [df_enc |-> enc, tried |-> tr]
    ELSE LET e == ENCODINGS[k]
             ok == e \notin F
         IN  IF BreakAfter(ok)
             THEN [df_enc |-> e, tried |-> Append(tr, e)]
             ELSE ReadCsv(k + 1, F, IF ok THEN e ELSE enc, Append(tr, e))

(***************************************************************************)
(* The database: tables crop_cycles and work_logs (src/database.py).       *)
(* A table is the sequence of its rows in the order of their ids.  Of a    *)
(* crop cycle the model keeps id, crop_name and status; the other columns  *)
(* are stored as given and read by nothing modelled here.                  *)
(***************************************************************************)
\* STATUS_OPTIONS of src/app.py: the entries of the status select boxes
STATUS_PLANNED == "planned"
STATUS_IN_PROGRESS == "in progress"
STATUS_COMPLETED == "completed"
STATUS_OPTIONS == <<STATUS_PLANNED, STATUS_IN_PROGRESS, STATUS_COMPLETED>>

\* the values the CHECK constraint of crop_cycles.status accepts
DB_STATUS_OPTIONS ==
    {"nursery", "harvest starts soon", "harvesting", "harvest ends soon", "ended",
     STATUS_PLANNED}

\* the CHECK clause of crop_cycles.status: old_check of init_db, and the one
\* init_db creates the table with
OLD_CHECK == "CHECK(status IN (planned, in progress, completed))"
NEW_CHECK == "CHECK(status IN (nursery, ..., ended, planned))"

TABLE_CROP_CYCLES == "crop_cycles"
TABLE_CROP_CYCLES_OLD == "crop_cycles_old"

\* sync_to_cloud.py has not exited
NoExit == -1

\* None (SQL NULL) in the integer column cycle_id; the ids of a table are
\* positive
NoCycle == -1

Ids(table) == {table[k].id : k \in 1..Len(table)}

\* the CHECK constraint of crop_cycles.status lets the row in
CycleAccepted(status) == status \in DB_STATUS_OPTIONS

create_crop_cycle(cycles, seq, crop_name, status) ==
    Append(cycles, [id |-> seq + 1, crop_name |-> crop_name, status |-> status])

update_crop_cycle(cycles, cycle_id, crop_name, status) ==
    [k \in 1..Len(cycles) |->
        IF cycles[k].id = cycle_id
        THEN [cycles[k] EXCEPT !.crop_name = crop_name, !.status = status]
        ELSE cycles[k]]

\* DELETE FROM crop_cycles WHERE id = ?
delete_crop_cycle(cycles, cycle_id) ==
    SelectSeq(cycles, LAMBDA cy : cy.id # cycle_id)

\* ON DELETE SET NULL of work_logs.cycle_id, foreign keys being on
OnDeleteSetNull(logs, cycle_id) ==
    [k \in 1..Len(logs) |->
        IF logs[k].cycle_id = cycle_id THEN [logs[k] EXCEPT !.cycle_id = NoCycle]
        ELSE logs[k]]

create_work_log(logs, seq, work_date, work_type, cycle_id, field_id, row_id, content, note) ==
    Append(logs, [id |-> seq + 1, cycle_id |-> cycle_id,
                  work_date |-> work_date, work_type |-> work_type,
                  cell_pot |-> None, quantity |-> None,
                  field_id |-> field_id, row_id |-> row_id,
                  content |-> content, note |-> note])

\* DELETE FROM work_logs WHERE id = ?
delete_work_log(logs, log_id) ==
    SelectSeq(logs, LAMBDA l : l.id # log_id)

\* UPDATE work_logs SET cycle_id = ? WHERE id = ?
link_work_log_to_cycle(logs, log_id, cycle_id) ==
    [k \in 1..Len(logs) |->
        IF logs[k].id = log_id THEN [logs[k] EXCEPT !.cycle_id = cycle_id]
        ELSE logs[k]]

\* SELECT * FROM work_logs WHERE cycle_id IS NULL
get_unlinked_work_logs(logs) == SelectSeq(logs, LAMBDA l : l.cycle_id = NoCycle)

\* variant: every imported log linked to the crop cycle 1
StoredLogLinked(rec, id) ==
    [id |-> id, cycle_id |-> 1,
     work_date |-> rec.work_date, work_type |-> rec.work_type,
     cell_pot |-> None, quantity |-> None,
     field_id |-> rec.field_id, row_id |-> rec.row_id,
     content |-> rec.content, note |-> rec.note]

\* rec.get(key, default)
RecGet(rec, key, default) == IF key \in DOMAIN rec THEN rec[key] ELSE default

\* the row one INSERT of import_csv_records stores
StoredLog(rec, id) ==
    [id |-> id, cycle_id |-> NoCycle,
     work_date |-> RecGet(rec, "work_date", ""),
     work_type |-> RecGet(rec, "work_type", DEFAULT_WORK_TYPE),
     cell_pot |-> RecGet(rec, "cell_pot", None),
     quantity |-> RecGet(rec, "quantity", None),
     field_id |-> RecGet(rec, "field_id", None),
     row_id |-> RecGet(rec, "row_id", None),
     content |-> RecGet(rec, "content", None),
     note |-> RecGet(rec, "note", None)]

\* the table work_logs.cycle_id references exists: a statement that writes
\* to work_logs can be prepared
ParentExists(parent) == parent = TABLE_CROP_CYCLES

\* the INSERT of a record raises: work_date and work_type are NOT NULL
InsertRaises(rec, parent) ==
    \/ ~ParentExists(parent)
    \/ RecGet(rec, "work_date", "") = None
    \/ RecGet(rec, "work_type", DEFAULT_WORK_TYPE) = None

\* the for loop of import_csv_records from its k-th record on: txn is the
\* table as the open transaction sees it, seq the last id given out before
\* the call; the loop ends with its records or at the INSERT that raises
RECURSIVE InsertLoop(_, _, _, _, _)
InsertLoop(txn, seq, recs, parent, k) ==
    IF k > Len(recs) THEN [rows |-> txn, raised |-> FALSE]
    ELSE IF InsertRaises(recs[k], parent) THEN [rows |-> txn, raised |-> TRUE]
    ELSE InsertLoop(Append(txn, StoredLog(recs[k], seq + k)), seq, recs, parent, k + 1)

\* variant: every INSERT committed on its own
PersistedEach(before, t) == t.rows

\* what the store holds after the call: conn.commit() of line 611 is reached
\* when no INSERT raised; otherwise the connection is dropped with its
\* transaction open, which rolls it back
Persisted(before, t) == IF t.raised THEN before ELSE t.rows

import_csv_records(logs, seq, recs, parent) ==
    Persisted(logs, InsertLoop(logs, seq, recs, parent, 1))

\* the call raises instead of returning
ImportRaises(recs, parent) == InsertLoop(<<>>, 0, recs, parent, 1).raised

\* what import_csv_records returns
imported(recs) == Len(recs)

VARIABLES
    pc,            \* position of the script run
    admin_mode,    \* st.session_state.admin_mode
    page,          \* st.session_state.page
    uploaded,      \* the file uploader holds a file
    fails,         \* the encodings under which pd.read_csv raises on that file
    tried,         \* the encodings the last run tried, in order
    df_enc,        \* the encoding df was parsed under; None when df is None
    df_len,        \* len(df); -1 when df is None
    df_example,    \* the uploaded file has ExampleDates as its first column
    mapping,       \* col_date, col_type, col_field, col_row, col_content, col_note
    i,             \* rows of df.iterrows() consumed
    row,           \* the row of the current iteration
    raw_date, prev_date, work_date, content,   \* locals of the loop
    records,       \* the list handed to import_csv_records
    resolved,      \* work_date of every iteration so far, in order
    message,       \* what the page shows: "", "success", "warning", "error",
                   \* "read_error", "exception"
    work_logs,     \* table work_logs
    crop_cycles,   \* table crop_cycles
    log_seq,       \* the last id given out by work_logs (AUTOINCREMENT)
    cycle_seq,     \* the last id given out by crop_cycles
    db_call,       \* the writing function of src/database.py that the handling
                   \* of the last event called; "" when it called none
    count,         \* what import_csv_records returned; None without a call
    create_sql,    \* the CHECK clause crop_cycles was created with
    references,    \* the table work_logs.cycle_id REFERENCES
    sync_pc,       \* position of sync_to_cloud.py
    commands,      \* the git commands sync_to_cloud.py has run, in order
    printed,       \* the messages sync_to_cloud.py has printed, in order
    exit_code      \* its exit status; NoExit while it runs

vars == <<pc, admin_mode, page, uploaded, fails, tried, df_enc, df_len, df_example,
          mapping, i, row, raw_date, prev_date, work_date, content, records,
          resolved, message, work_logs, crop_cycles, log_seq, cycle_seq, db_call,
          count, create_sql, references, sync_pc, commands, printed, exit_code>>

session == <<admin_mode, page>>
upload == <<uploaded, fails, tried, df_enc, df_len, df_example, mapping>>
locals == <<i, row, raw_date, prev_date, work_date, content, records, resolved>>
db == <<work_logs, crop_cycles, log_seq, cycle_seq>>
schema == <<create_sql, references>>
sync == <<sync_pc, commands, printed, exit_code>>

PAGE_DASHBOARD == "dashboard"
PAGE_WORK_LOG_INPUT == "work_log_input"
PAGE_CROP_CYCLE_FORM == "crop_cycle_form"
PAGE_CSV_IMPORT == "csv_import"

\* admin_pages of the sidebar
AdminPages == {PAGE_WORK_LOG_INPUT, PAGE_CROP_CYCLE_FORM, PAGE_CSV_IMPORT}

DefaultMapping ==
    [date |-> DefaultCol(1), work_type |-> DefaultCol(2), field_id |-> DefaultCol(3),
     row_id |-> DefaultCol(4), content |-> DefaultCol(5), note |-> DefaultCol(6)]

NoMapping ==
    [date |-> NONE_LABEL, work_type |-> NONE_LABEL, field_id |-> NONE_LABEL,
     row_id |-> NONE_LABEL, content |-> NONE_LABEL, note |-> NONE_LABEL]

\* variant: the carried date of the run before is kept
FreshLocalsKeepDate ==
    /\ i' = 0
    /\ row' = NoRow
    /\ raw_date' = ""
    /\ prev_date' = prev_date
    /\ work_date' = ""
    /\ content' = None
    /\ records' = <<>>
    /\ resolved' = <<>>

\* a script run starts with no locals
FreshLocals ==
    /\ i' = 0
    /\ row' = NoRow
    /\ raw_date' = ""
    /\ prev_date' = ""
    /\ work_date' = ""
    /\ content' = None
    /\ records' = <<>>
    /\ resolved' = <<>>

\* the uploader holds no file
NoFile ==
    /\ uploaded' = FALSE
    /\ fails' = {}
    /\ tried' = <<>>
    /\ df_enc' = None
    /\ df_len' = -1
    /\ df_example' = FALSE
    /\ mapping' = NoMapping

\* a run that calls no writing function of the database
NoWrite ==
    /\ db_call' = ""
    /\ count' = None
    /\ UNCHANGED db

\* the store as init_db creates it
NewSchema ==
    /\ create_sql = NEW_CHECK
    /\ references = TABLE_CROP_CYCLES

\* sync_to_cloud.py has not been started
SyncNotStarted ==
    /\ sync_pc = "start"
    /\ commands = <<>>
    /\ printed = <<>>
    /\ exit_code = NoExit

\* a write to work_logs raises sqlite3.OperationalError (no such table) when
\* the table its cycle_id references is gone
WorkLogsWritable == ParentExists(references)

\* the write to work_logs of the named function raised: nothing is stored
WriteRaised(name) ==
    /\ db_call' = name
    /\ count' = None
    /\ message' = "exception"
    /\ UNCHANGED db

\* the page waits for the user's next event
Idle == pc = "idle"

InLoop == pc \in {"loop", "appended", "skipped"}

Init ==
    /\ pc = "idle"
    /\ admin_mode = FALSE
    /\ page = PAGE_DASHBOARD
    /\ uploaded = FALSE
    /\ fails = {}
    /\ tried = <<>>
    /\ df_enc = None
    /\ df_len = -1
    /\ df_example = FALSE
    /\ mapping = NoMapping
    /\ i = 0
    /\ row = NoRow
    /\ raw_date = ""
    /\ prev_date = ""
    /\ work_date = ""
    /\ content = None
    /\ records = <<>>
    /\ resolved = <<>>
    /\ message = ""
    /\ work_logs = <<>>
    /\ crop_cycles = <<>>
    /\ log_seq = 0
    /\ cycle_seq = 0
    /\ db_call = ""
    /\ count = None
    /\ NewSchema
    /\ SyncNotStarted

(***************************************************************************)
(* Sidebar: login, logout, navigation.                                     *)
(***************************************************************************)
\* variant: the password is not compared
LoginAnyPassword(pw) ==
    /\ Idle
    /\ ~admin_mode
    /\ admin_mode' = TRUE
    /\ pc' = "idle"
    /\ message' = ""
    /\ FreshLocals
    /\ NoWrite
    /\ UNCHANGED <<page, upload>>
    /\ UNCHANGED <<schema, sync>>

\* the login button: lines 975-981
Login(pw) ==
    /\ Idle
    /\ ~admin_mode
    /\ admin_mode' = (pw = ADMIN_PASSWORD)
    /\ pc' = "idle"
    /\ message' = ""
    /\ FreshLocals
    /\ NoWrite
    /\ UNCHANGED <<page, upload>>
    /\ UNCHANGED <<schema, sync>>

Logout ==
    /\ Idle
    /\ admin_mode
    /\ admin_mode' = FALSE
    /\ page' = PAGE_DASHBOARD
    /\ pc' = "idle"
    /\ message' = ""
    /\ NoFile
    /\ FreshLocals
    /\ NoWrite
    /\ UNCHANGED <<schema, sync>>

\* variant: the admin pages offered to everybody
NavigateOpen(p) ==
    /\ Idle
    /\ page' = p
    /\ pc' = "idle"
    /\ IF p = page
       THEN /\ UNCHANGED upload
            /\ message' = IF uploaded /\ df_enc = None THEN "read_error" ELSE ""
       ELSE /\ NoFile
            /\ message' = ""
    /\ FreshLocals
    /\ NoWrite
    /\ UNCHANGED admin_mode
    /\ UNCHANGED <<schema, sync>>

\* a navigation button; the admin pages are offered in admin mode only.  The
\* widgets of a page left lose their state; the page shown again keeps it.
Navigate(p) ==
    /\ Idle
    /\ p \in AdminPages => admin_mode
    /\ page' = p
    /\ pc' = "idle"
    /\ IF p = page
       THEN /\ UNCHANGED upload
            /\ message' = IF uploaded /\ df_enc = None THEN "read_error" ELSE ""
       ELSE /\ NoFile
            /\ message' = ""
    /\ FreshLocals
    /\ NoWrite
    /\ UNCHANGED admin_mode
    /\ UNCHANGED <<schema, sync>>

(***************************************************************************)
(* page_work_log_input.                                                    *)
(***************************************************************************)
OnWorkLogPage == page = PAGE_WORK_LOG_INPUT /\ admin_mode

\* what a text input gives to the database: value or None
OrNone(text) == IF text = "" THEN None ELSE text

\* the form is submitted: lines 483-496.  cycle_id is an option of the select
\* box: 0 or the id of a crop cycle
SubmitWorkLog(date, work_type, cycle_id, text) ==
    /\ Idle
    /\ OnWorkLogPage
    /\ cycle_id \in {0} \cup Ids(crop_cycles)
    /\ pc' = "idle"
    /\ IF work_type = ""
       THEN /\ message' = "error"
            /\ NoWrite
       ELSE IF ~WorkLogsWritable THEN WriteRaised("create_work_log")
       ELSE /\ work_logs' = create_work_log(work_logs, log_seq, date, work_type,
                                IF cycle_id # 0 THEN cycle_id ELSE NoCycle,
                                None, None, OrNone(text), None)
            /\ log_seq' = log_seq + 1
            /\ db_call' = "create_work_log"
            /\ count' = None
            /\ message' = "success"
            /\ UNCHANGED <<crop_cycles, cycle_seq>>
    /\ FreshLocals
    /\ UNCHANGED <<session, upload>>
    /\ UNCHANGED <<schema, sync>>

\* the delete button, shown while there is a recent work log: lines 515-524
DeleteWorkLog(del_id) ==
    /\ Idle
    /\ OnWorkLogPage
    /\ work_logs # <<>>
    /\ del_id >= 1
    /\ pc' = "idle"
    /\ IF ~WorkLogsWritable THEN WriteRaised("delete_work_log")
       ELSE /\ work_logs' = delete_work_log(work_logs, del_id)
            /\ db_call' = "delete_work_log"
            /\ count' = None
            /\ message' = ""
            /\ UNCHANGED <<crop_cycles, log_seq, cycle_seq>>
    /\ FreshLocals
    /\ UNCHANGED <<session, upload>>
    /\ UNCHANGED <<schema, sync>>

(***************************************************************************)
(* page_crop_cycle_form.                                                   *)
(***************************************************************************)
OnCyclePage == page = PAGE_CROP_CYCLE_FORM /\ admin_mode

\* the form of the first tab is submitted: lines 570-584
SubmitNewCycle(crop_name, status) ==
    /\ Idle
    /\ OnCyclePage
    /\ pc' = "idle"
    /\ IF crop_name = ""
       THEN /\ message' = "error"
            /\ NoWrite
       ELSE /\ db_call' = "create_crop_cycle"
            /\ count' = None
            /\ IF CycleAccepted(status)
               THEN /\ crop_cycles' = create_crop_cycle(crop_cycles, cycle_seq, crop_name, status)
                    /\ cycle_seq' = cycle_seq + 1
                    /\ message' = "success"
               ELSE \* sqlite3.IntegrityError: nothing is stored
                    /\ UNCHANGED <<crop_cycles, cycle_seq>>
                    /\ message' = "exception"
            /\ UNCHANGED <<work_logs, log_seq>>
    /\ FreshLocals
    /\ UNCHANGED <<session, upload>>
    /\ UNCHANGED <<schema, sync>>

\* the save button of the edit form: lines 690-709
SaveCycle(edit_id, crop_name, status) ==
    /\ Idle
    /\ OnCyclePage
    /\ edit_id \in Ids(crop_cycles)
    /\ db_call' = "update_crop_cycle"
    /\ count' = None
    /\ pc' = "idle"
    /\ IF CycleAccepted(status)
       THEN /\ crop_cycles' = update_crop_cycle(crop_cycles, edit_id, crop_name, status)
            /\ message' = ""
       ELSE /\ crop_cycles' = crop_cycles
            /\ message' = "exception"
    /\ FreshLocals
    /\ UNCHANGED <<session, upload, work_logs, log_seq, cycle_seq>>
    /\ UNCHANGED <<schema, sync>>

\* the delete button of the edit form: lines 711-714
DeleteCycle(edit_id) ==
    /\ Idle
    /\ OnCyclePage
    /\ edit_id \in Ids(crop_cycles)
    /\ crop_cycles' = delete_crop_cycle(crop_cycles, edit_id)
    /\ work_logs' = IF references = TABLE_CROP_CYCLES
                     THEN OnDeleteSetNull(work_logs, edit_id)
                     ELSE work_logs
    /\ db_call' = "delete_crop_cycle"
    /\ count' = None
    /\ pc' = "idle"
    /\ message' = ""
    /\ FreshLocals
    /\ UNCHANGED <<session, upload, log_seq, cycle_seq>>
    /\ UNCHANGED <<schema, sync>>

\* a link button of the third tab: lines 736-754
LinkWorkLog(log_id, target_cycle) ==
    /\ Idle
    /\ OnCyclePage
    /\ target_cycle \in Ids(crop_cycles)
    /\ log_id \in Ids(get_unlinked_work_logs(work_logs))
    /\ pc' = "idle"
    /\ IF ~WorkLogsWritable THEN WriteRaised("link_work_log_to_cycle")
       ELSE /\ work_logs' = link_work_log_to_cycle(work_logs, log_id, target_cycle)
            /\ db_call' = "link_work_log_to_cycle"
            /\ count' = None
            /\ message' = ""
            /\ UNCHANGED <<crop_cycles, log_seq, cycle_seq>>
    /\ FreshLocals
    /\ UNCHANGED <<session, upload>>
    /\ UNCHANGED <<schema, sync>>

(***************************************************************************)
(* page_csv_import.                                                        *)
(***************************************************************************)
OnImportPage == page = PAGE_CSV_IMPORT /\ admin_mode

\* a file is chosen in the uploader: the encodings are tried, and after a
\* parse the select boxes show their preselected columns.  n and ex describe
\* the table of the accepted parse.
Upload(n, ex, F) ==
    /\ Idle
    /\ OnImportPage
    /\ LET res == ReadCsv(1, F, None, <<>>)
       IN  /\ uploaded' = TRUE
           /\ fails' = F
           /\ tried' = res.tried
           /\ df_enc' = res.df_enc
           /\ IF res.df_enc = None
              THEN /\ df_len' = -1
                   /\ df_example' = FALSE
                   /\ mapping' = NoMapping
                   /\ message' = "read_error"
              ELSE /\ df_len' = n
                   /\ df_example' = ex
                   /\ mapping' = DefaultMapping
                   /\ message' = ""
    /\ pc' = "idle"
    /\ FreshLocals
    /\ NoWrite
    /\ UNCHANGED session
    /\ UNCHANGED <<schema, sync>>

\* the user changes the select boxes
SelectMapping(m) ==
    /\ Idle
    /\ OnImportPage
    /\ df_len >= 0
    /\ mapping' = m
    /\ pc' = "idle"
    /\ message' = ""
    /\ FreshLocals
    /\ NoWrite
    /\ UNCHANGED <<session, uploaded, fails, tried, df_enc, df_len, df_example>>
    /\ UNCHANGED <<schema, sync>>

\* the import button: lines 815-817
ClickImport ==
    /\ Idle
    /\ OnImportPage
    /\ df_len >= 0
    /\ pc' = "loop"
    /\ message' = ""
    /\ FreshLocals
    /\ NoWrite
    /\ UNCHANGED <<session, upload>>
    /\ UNCHANGED <<schema, sync>>

\* variant: field_id and row_id written to each other's key
RecordIdsSwapped(wd, r, m) ==
    [work_date |-> wd,
     work_type |-> WorkTypeOf(r, m.work_type),
     field_id |-> _get_val(r, m.row_id),
     row_id |-> _get_val(r, m.field_id),
     content |-> _get_val(r, m.content),
     note |-> _get_val(r, m.note)]

Record(wd, r, m) ==
    [work_date |-> wd,
     work_type |-> WorkTypeOf(r, m.work_type),
     field_id |-> _get_val(r, m.field_id),
     row_id |-> _get_val(r, m.row_id),
     content |-> _get_val(r, m.content),
     note |-> _get_val(r, m.note)]

\* one iteration of the loop over df.iterrows(): lines 818-852
LoopRow(r) ==
    /\ InLoop
    /\ i < df_len
    /\ df_example => r.c1 = ExampleDates[i + 1] /\ r.c2 = " seeding "
    /\ LET rd == RawDateOf(r, mapping.date)
           wd == _convert_date(rd, prev_date)
           c == _get_val(r, mapping.content)
       IN  /\ row' = r
           /\ i' = i + 1
           /\ raw_date' = rd
           /\ IF ConvertDateRaises(rd) # None
              THEN \* an exception nobody catches ends the script run
                   /\ pc' = "error"
                   /\ message' = "exception"
                   /\ UNCHANGED <<work_date, prev_date, content, resolved, records>>
              ELSE /\ work_date' = wd
                   /\ prev_date' = NextPrev(wd, prev_date)
                   /\ content' = c
                   /\ resolved' = Append(resolved, wd)
                   /\ message' = message
                   /\ IF SkipRow(wd, c)
                      THEN /\ records' = records
                           /\ pc' = "skipped"
                      ELSE /\ records' = Append(records, Record(wd, r, mapping))
                           /\ pc' = "appended"
    /\ UNCHANGED <<session, upload, db, db_call, count>>
    /\ UNCHANGED <<schema, sync>>

\* line 854: if records
HasRecords(recs) == recs # <<>>

\* variant: the loop may be left before its last row
ExhaustedAnywhere(k, n) == TRUE

\* the for statement of line 818 has no row left
Exhausted(k, n) == k = n

\* after the loop: lines 854-859
Finish ==
    /\ InLoop
    /\ Exhausted(i, df_len)
    /\ pc' = "done"
    /\ IF HasRecords(records)
       THEN /\ db_call' = "import_csv_records"
            /\ work_logs' = import_csv_records(work_logs, log_seq, records, references)
            /\ IF ImportRaises(records, references)
               THEN /\ UNCHANGED log_seq
                    /\ count' = None
                    /\ message' = "exception"
               ELSE /\ log_seq' = log_seq + Len(records)
                    /\ count' = imported(records)
                    /\ message' = "success"
       ELSE /\ UNCHANGED <<work_logs, log_seq, db_call, count>>
            /\ message' = "warning"
    /\ UNCHANGED <<session, upload, locals, crop_cycles, cycle_seq>>
    /\ UNCHANGED <<schema, sync>>

\* the script run ends; its locals are gone and the page, still showing its
\* message, waits for the next event
EndRun ==
    /\ pc = "done"
    /\ pc' = "idle"
    /\ FreshLocals
    /\ UNCHANGED <<session, upload, message, db, db_call, count>>
    /\ UNCHANGED <<schema, sync>>

\* which encodings fail on the files uploaded in Spec: none or all
SpecFails == {{}, EncodingSet}

Next ==
    \/ \E pw \in Passwords : Login(pw)
    \/ Logout
    \/ \E p \in {PAGE_DASHBOARD, PAGE_CSV_IMPORT} : Navigate(p)
    \/ \E n \in 0..MaxRows, F \in SpecFails : Upload(n, FALSE, F)
    \/ Upload(Len(ExampleDates), TRUE, {})
    \/ \E m \in Mappings : SelectMapping(m)
    \/ ClickImport
    \/ \E r \in Rows : LoopRow(r)
    \/ Finish

Spec == Init /\ [][Next]_vars


(***************************************************************************)
(* Properties of the import loop (Spec).                                   *)
(***************************************************************************)
\* the loop has just finished an iteration
AfterRow == pc \in {"appended", "skipped"}

LastRecord == records[Len(records)]

\* the resolved date of the row before the current one; empty for the first row
PrevResolved == IF i <= 1 THEN "" ELSE resolved[i - 1]

\* the date cell of the current row was blank (or the date field unmapped)
BlankDate == raw_date = "" \/ raw_date = "nan"

\* C1: every emitted record has a non-empty work_date or a non-empty content,
\* and a row whose resolved date is empty and whose content is absent is
\* dropped: the row leaves the loop at the continue and the record list does
\* not hold it.
C1_DateOrContent ==
    /\ \A k \in 1..Len(records) :
          records[k].work_date # "" \/ records[k].content \notin {None, ""}
    /\ (AfterRow /\ work_date = "" /\ content = None) => pc = "skipped"
    /\ pc = "skipped" => work_date = "" /\ content = None

\* a first row with content only was kept, the second row, empty, was dropped
C1_Witness ==
    /\ pc = "skipped"
    /\ i = 2
    /\ Len(records) = 1
    /\ records[1].work_date = ""
    /\ records[1].content = "x"

ExampleResolved ==
    <<"2024-01-05", "2024-01-05", "2024-01-05", "2024-02-10", "2024-02-10">>

\* the date cell of the current row matches one of the three date forms
DateParses == ~BlankDate /\ (SlashMatch(raw_date) \/ HyphenMatch(raw_date) \/ EightMatch(raw_date))

\* C2: carry-forward. The carried date is empty when the loop starts; a row
\* with a blank date cell gets the resolved date of the row before it (empty
\* for the first row); a row whose date parses has that date and makes it the
\* carried date; the example column resolves to the example's dates.
C2_CarryForward ==
    /\ pc = "loop" => prev_date = "" /\ resolved = <<>>
    /\ (AfterRow /\ BlankDate) => work_date = PrevResolved
    /\ (AfterRow /\ DateParses) =>
           /\ work_date # ""
           /\ work_date = _convert_date(raw_date, "")
           /\ prev_date = work_date
    /\ AfterRow => prev_date = work_date /\ Len(resolved) = i /\ resolved[i] = work_date
    /\ (df_example /\ mapping.date = "c1" /\ InLoop) => resolved = SubSeq(ExampleResolved, 1, i)

\* the whole example column has been resolved
C2_Witness ==
    /\ df_example
    /\ mapping.date = "c1"
    /\ i = Len(ExampleDates)
    /\ AfterRow
    /\ resolved = ExampleResolved

\* C3: a first row with the date text "not-a-date" and blank content emits no
\* record: its resolved date is empty and the row is suppressed.
C3_NotADateSuppressed ==
    (AfterRow /\ i = 1 /\ mapping.date = "c1" /\ row.c1 = "not-a-date" /\ content = None)
        => (work_date = "" /\ pc = "skipped" /\ records = <<>>)

IsCanonicalDate(s) ==
    /\ Len(s) = 10
    /\ \A k \in {1, 2, 3, 4, 6, 7, 9, 10} : Char(s, k) \in Digits
    /\ Char(s, 5) = "-"
    /\ Char(s, 8) = "-"

\* C4: the work_date of every emitted record is empty or of the form
\* YYYY-MM-DD (four digits, hyphen, two digits, hyphen, two digits).
C4_CanonicalDates ==
    \A k \in 1..Len(records) :
        records[k].work_date = "" \/ IsCanonicalDate(records[k].work_date)

\* C5: a row whose date cell is non-blank and matches none of the date forms
\* is treated like a row with a blank date cell: it is handled (no error
\* position), its resolved date is the carried date as it stood before the
\* row, and the carried date is unchanged.
C5_UnparseableInherits ==
    (AfterRow /\ ~BlankDate /\ ~DateParses) =>
        /\ work_date = PrevResolved
        /\ prev_date = PrevResolved

\* an unparseable date cell after a dated row: the row has the earlier date
C5_Witness ==
    /\ AfterRow
    /\ i = 2
    /\ raw_date = "bad"
    /\ resolved[1] = "2024-01-05"
    /\ work_date = "2024-01-05"
    /\ prev_date = "2024-01-05"

\* the trimmed text of the cell a field is mapped to; empty when unmapped
MappedText(col) == IF col = NONE_LABEL THEN "" ELSE Strip(RowGet(row, col))

\* C9, as stated: a row whose date cell is empty and whose content cell is
\* empty never appears in the output; a row whose date cell is empty and whose
\* content is not is retained with an empty work_date.
C9_AsStated ==
    /\ (AfterRow /\ BlankDate /\ content = None) => pc = "skipped"
    /\ (AfterRow /\ BlankDate /\ content # None) =>
           pc = "appended" /\ LastRecord.work_date = ""

\* C9, amended: a row whose date cell is empty, met while no earlier row has
\* resolved a date, never appears in the output when its content cell is
\* empty, whatever its other fields hold, and is retained with an empty
\* work_date when its content is not empty.
C9_EmptyDateNoCarry ==
    /\ (AfterRow /\ BlankDate /\ PrevResolved = "" /\ content = None) =>
           /\ pc = "skipped"
           /\ \A k \in 1..Len(records) : records[k].work_date = "" /\ records[k].content # None
    /\ (AfterRow /\ BlankDate /\ PrevResolved = "" /\ content # None) =>
           /\ pc = "appended"
           /\ LastRecord.work_date = ""
           /\ LastRecord.content = content

\* a row with a field id and a note but neither date nor content is dropped
C9_Witness ==
    /\ pc = "skipped"
    /\ BlankDate
    /\ mapping.content = NONE_LABEL
    /\ mapping.field_id = "c3"
    /\ MappedText(mapping.field_id) = "x"
    /\ records = <<>>

\* C10: every emitted record has a non-empty work_type: the trimmed text of
\* the mapped work-type cell, or the default when the field is unmapped or the
\* cell is empty, whitespace only or "nan".
C10_WorkType ==
    /\ \A k \in 1..Len(records) : records[k].work_type \notin {"", "nan", None}
    /\ pc = "appended" =>
         LET t == MappedText(mapping.work_type)
         IN  LastRecord.work_type = (IF t = "" \/ t = "nan" THEN DEFAULT_WORK_TYPE ELSE t)

\* a record got the default because its work-type cell was empty
C10_Witness ==
    /\ pc = "appended"
    /\ mapping.work_type = "c2"
    /\ row.c2 = "nan"
    /\ LastRecord.work_type = DEFAULT_WORK_TYPE

AuxFields == {"field_id", "row_id", "content", "note"}

\* C11: each of field_id, row_id, content and note of an emitted record is
\* None when the field is unmapped or its trimmed cell is empty or "nan", and
\* the trimmed cell text otherwise; no such field of any record is "" or "nan".
C11_AuxFields ==
    /\ \A k \in 1..Len(records) : \A f \in AuxFields : records[k][f] \notin {"", "nan"}
    /\ pc = "appended" =>
         \A f \in AuxFields :
             LET t == MappedText(mapping[f])
             IN  LastRecord[f] = (IF t = "" \/ t = "nan" THEN None ELSE t)

\* a record whose content is unmapped and whose field id and note are the
\* trimmed text of their cell
C11_Witness ==
    /\ pc = "appended"
    /\ mapping.content = NONE_LABEL
    /\ mapping.field_id = "c3"
    /\ row.c3 = " x "
    /\ LastRecord.content = None
    /\ LastRecord.field_id = "x"
    /\ LastRecord.note = "x"

\* C12: the loop never raises, whatever the cells and the mapping: no run is
\* at the error position and no exception is shown; every row the loop has
\* read has a resolved date, and the row just read was appended to the record
\* list or skipped at the continue.
C12_NeverRaises ==
    /\ pc # "error"
    /\ message # "exception"
    /\ (InLoop \/ pc = "done") => Len(resolved) = i /\ Len(records) <= i
    /\ (InLoop /\ i > 0) => AfterRow
    /\ pc = "appended" => LastRecord = Record(work_date, row, mapping)

\* a date cell whose slash parts are not all numbers raised nothing: the row
\* has the date of the row before it
C12_Witness ==
    /\ pc = "appended"
    /\ i = 2
    /\ raw_date = "2024/x/1"
    /\ resolved[1] = "2024-01-05"
    /\ work_date = "2024-01-05"

(***************************************************************************)
(* SpecIdem: the import loop on a file of six columns, one per field, whose *)
(* date cells are of the form YYYY-MM-DD and whose cells are all filled.   *)
(***************************************************************************)
\* what the six select boxes preselect on a file of six columns:
\* index=min(k, len(cols) - 1) is k
IdentityMapping ==
    [date |-> "c1", work_type |-> "c2", field_id |-> "c3",
     row_id |-> "c4", content |-> "c5", note |-> "c6"]

\* rows of such a file; a filled cell may have blanks around its text
IdemRows ==
    [c1 : {"2024-01-05", "2023-12-31"}, c2 : {"seeding", "harvest"}, c3 : {"d01"},
     c4 : {"1"}, c5 : {"x", " x "}, c6 : {"n", "m m"}]

InitIdem ==
    /\ pc = "loop"
    /\ admin_mode = TRUE
    /\ page = PAGE_CSV_IMPORT
    /\ uploaded = TRUE
    /\ fails = {}
    /\ tried = <<ENCODINGS[1]>>
    /\ df_enc = ENCODINGS[1]
    /\ df_len \in 1..MaxRows
    /\ df_example = FALSE
    /\ mapping = IdentityMapping
    /\ i = 0
    /\ row = NoRow
    /\ raw_date = ""
    /\ prev_date = ""
    /\ work_date = ""
    /\ content = None
    /\ records = <<>>
    /\ resolved = <<>>
    /\ message = ""
    /\ work_logs = <<>>
    /\ crop_cycles = <<>>
    /\ log_seq = 0
    /\ cycle_seq = 0
    /\ db_call = ""
    /\ count = None
    /\ NewSchema
    /\ SyncNotStarted

NextIdem ==
    \/ \E r \in IdemRows : LoopRow(r)
    \/ Finish

SpecIdem == InitIdem /\ [][NextIdem]_vars

(***************************************************************************)
(* Properties of the import loop on a canonical table (SpecIdem).          *)
(***************************************************************************)
\* a row of the six-column file read as a record, cell by cell
RowAsRecord(r) ==
    [work_date |-> r.c1, work_type |-> r.c2, field_id |-> r.c3,
     row_id |-> r.c4, content |-> r.c5, note |-> r.c6]

\* a record written back as a row of the six-column file; an absent value is
\* an empty cell, whose str() is "nan"
CellOf(v) == IF v = None \/ v = "" THEN "nan" ELSE v

RecordAsRow(rec) ==
    [c1 |-> CellOf(rec.work_date), c2 |-> CellOf(rec.work_type),
     c3 |-> CellOf(rec.field_id), c4 |-> CellOf(rec.row_id),
     c5 |-> CellOf(rec.content), c6 |-> CellOf(rec.note)]

\* no cell of the row has blanks around its text
TrimmedRow(r) ==
    \A col \in {"c1", "c2", "c3", "c4", "c5", "c6"} : Strip(RowGet(r, col)) = RowGet(r, col)

\* the record the loop makes of row r, read beside the carried date p
Normalized(r, p) == Record(_convert_date(RawDateOf(r, "c1"), p), r, IdentityMapping)

\* C14, as stated: on a table with dates of the form YYYY-MM-DD and all
\* cells filled, under the identity mapping, every row gives one record, equal
\* to the row.
C14_AsStated ==
    /\ AfterRow => pc = "appended" /\ Len(records) = i
    /\ pc = "appended" => LastRecord = RowAsRecord(row)

\* C14, amended: on such a table every row gives one record, in the order of
\* the rows; the record is equal to the row when no cell of the row has blanks
\* around its text, and holds the trimmed cells otherwise; normalizing the
\* emitted record again, beside any carried date, returns it unchanged.
C14_Idempotent ==
    /\ AfterRow => pc = "appended" /\ Len(records) = i
    /\ InLoop => \A k \in 1..Len(records) : records[k].work_date = resolved[k]
    /\ (pc = "appended" /\ TrimmedRow(row)) => LastRecord = RowAsRecord(row)
    /\ pc = "appended" =>
         /\ \A f \in DOMAIN LastRecord : LastRecord[f] = Strip(RowAsRecord(row)[f])
         /\ \A p \in PrevDates : Normalized(RecordAsRow(LastRecord), p) = LastRecord

\* the second of two rows without blanks around their cells has become the
\* second record, equal to the row
C14_Witness ==
    /\ pc = "appended"
    /\ i = 2
    /\ TrimmedRow(row)
    /\ row.c6 = "m m"
    /\ Len(records) = 2
    /\ records[2] = RowAsRecord(row)
    /\ records[1].work_date = resolved[1]

(***************************************************************************)
(* SpecRead: sessions of uploads and imports, over every set of failing    *)
(* encodings and a table of one row kind.                                  *)
(***************************************************************************)
MaxLogs == 3

ReadRows == {[c1 |-> "2024-01-05", c2 |-> " seeding ", c3 |-> " x "]}

NextRead ==
    \/ \E pw \in Passwords : Login(pw)
    \/ Logout
    \/ \E p \in {PAGE_DASHBOARD, PAGE_CSV_IMPORT} : Navigate(p)
    \/ \E n \in 0..1, F \in SUBSET EncodingSet : Upload(n, FALSE, F)
    \/ (log_seq + df_len <= MaxLogs /\ ClickImport)
    \/ \E r \in ReadRows : LoopRow(r)
    \/ Finish
    \/ EndRun

SpecRead == Init /\ [][NextRead]_vars

(***************************************************************************)
(* Properties of the encoding loop (SpecRead).                             *)
(***************************************************************************)
\* C15: the candidates are tried in the order cp932, shift_jis, utf-8,
\* utf-8-sig, latin1; every candidate tried before the last one raised; the
\* table is the parse under the first candidate that does not raise, which is
\* the last one tried: no later candidate is attempted.
C15_FirstSuccess ==
    uploaded =>
        /\ Len(tried) >= 1
        /\ tried = SubSeq(<<"cp932", "shift_jis", "utf-8", "utf-8-sig", "latin1">>, 1, Len(tried))
        /\ \A k \in 1..(Len(tried) - 1) : tried[k] \in fails
        /\ df_enc # None => df_enc = tried[Len(tried)] /\ df_enc \notin fails
        /\ df_enc = None => Len(tried) = 5 /\ tried[5] \in fails

\* a file that is neither cp932 nor shift_jis was parsed as utf-8, and neither
\* utf-8-sig nor latin1 was tried, though latin1 would not have raised
C15_Witness ==
    /\ uploaded
    /\ fails = {"cp932", "shift_jis", "utf-8-sig"}
    /\ tried = <<"cp932", "shift_jis", "utf-8">>
    /\ df_enc = "utf-8"
    /\ df_len = 1

\* C16: a read failure is reported exactly when the uploader holds a file on
\* which all five candidates raise; then the page is left at once: no row is
\* read, no record made, no writing function of the database called, and the
\* step that reports the failure leaves the tables as they were; the loop
\* runs only on a table that was parsed.
C16_ReadFailure ==
    /\ [](message = "read_error" <=> (uploaded /\ EncodingSet \subseteq fails))
    /\ [](message = "read_error" =>
              /\ pc = "idle"
              /\ df_enc = None
              /\ df_len = -1
              /\ i = 0
              /\ resolved = <<>>
              /\ records = <<>>
              /\ db_call = ""
              /\ count = None)
    /\ [][message' = "read_error" => UNCHANGED db]_vars
    /\ []((InLoop \/ pc = "done") => (df_enc # None /\ df_enc \notin fails))

\* after an import that stored a log, a file that no candidate can read: the
\* failure is shown and the stored log is still there
C16_Witness ==
    /\ message = "read_error"
    /\ fails = EncodingSet
    /\ Len(work_logs) = 1
    /\ work_logs[1].work_date = "2024-01-05"

(***************************************************************************)
(* SpecImports: sessions of several imports.  The table of n rows is       *)
(* SessionTable(n).                                                        *)
(***************************************************************************)
\* a row with content and no date, and a dated row without content
NoteRow == [c1 |-> "nan", c2 |-> "nan", c3 |-> " x "]

DatedRow == [c1 |-> "2024-02-10", c2 |-> " seeding ", c3 |-> "nan"]

SessionTable(n) == [k \in 1..n |-> IF k % 2 = 1 THEN NoteRow ELSE DatedRow]

SessionMappings == {DefaultMapping, [DefaultMapping EXCEPT !.date = NONE_LABEL]}

NextImports ==
    \/ \E pw \in Passwords : Login(pw)
    \/ Logout
    \/ \E p \in {PAGE_DASHBOARD, PAGE_CSV_IMPORT} : Navigate(p)
    \/ \E n \in 0..MaxRows : Upload(n, FALSE, {})
    \/ \E m \in SessionMappings : SelectMapping(m)
    \/ (log_seq + df_len <= MaxLogs /\ ClickImport)
    \/ (InLoop /\ i < df_len /\ LoopRow(SessionTable(df_len)[i + 1]))
    \/ Finish
    \/ EndRun

SpecImports == Init /\ [][NextImports]_vars

\* a script run is one thread running to its end: a started loop goes on to
\* its next row and to the lines after the loop
FairImports ==
    /\ SpecImports
    /\ WF_vars(InLoop /\ i < df_len /\ LoopRow(SessionTable(df_len)[i + 1]))
    /\ WF_vars(Finish)

(***************************************************************************)
(* SpecSession: sessions over all the pages that write to the database;    *)
(* the imports are of the tables of no row and of one row.                 *)
(***************************************************************************)
MaxCycles == 1

Pages == {PAGE_DASHBOARD} \cup AdminPages

CropNames == {"", "tomato"}

WorkTypeInputs == {"", "harvest"}

NextSession ==
    \/ \E pw \in Passwords : Login(pw)
    \/ Logout
    \/ \E p \in Pages : Navigate(p)
    \/ \E n \in 0..1 : Upload(n, FALSE, {})
    \/ (log_seq + df_len <= MaxLogs /\ ClickImport)
    \/ (InLoop /\ i < df_len /\ LoopRow(SessionTable(df_len)[i + 1]))
    \/ Finish
    \/ EndRun
    \/ (log_seq < MaxLogs /\ \E wt \in WorkTypeInputs, cy \in 0..MaxCycles :
            SubmitWorkLog("2024-03-01", wt, cy, ""))
    \/ \E id \in 1..MaxLogs : DeleteWorkLog(id)
    \/ (cycle_seq < MaxCycles /\ \E name \in CropNames, k \in 1..Len(STATUS_OPTIONS) :
            SubmitNewCycle(name, STATUS_OPTIONS[k]))
    \/ \E id \in 1..MaxCycles, name \in CropNames, k \in 1..Len(STATUS_OPTIONS) :
            SaveCycle(id, name, STATUS_OPTIONS[k])
    \/ \E id \in 1..MaxCycles : DeleteCycle(id)
    \/ \E id \in 1..MaxLogs, cy \in 1..MaxCycles : LinkWorkLog(id, cy)

SpecSession == Init /\ [][NextSession]_vars

(***************************************************************************)
(* Properties of sessions (SpecImports, FairImports, SpecSession).          *)
(***************************************************************************)
\* the records of a table under a mapping, computed from the table alone:
\* the rows from the k-th on, beside the carried date prev, after recs
RECURSIVE NormalizeFrom(_, _, _, _, _)
NormalizeFrom(rows, m, k, prev, recs) ==
    IF k > Len(rows) THEN recs
    ELSE LET wd == _convert_date(RawDateOf(rows[k], m.date), prev)
             c == _get_val(rows[k], m.content)
         IN  NormalizeFrom(rows, m, k + 1, NextPrev(wd, prev),
                           IF SkipRow(wd, c) THEN recs
                           ELSE Append(recs, Record(wd, rows[k], m)))

Normalize(rows, m) == NormalizeFrom(rows, m, 1, "", <<>>)

\* C17: every import starts with an empty carried date and an empty record
\* list, whatever the imports before it left, and the records it has made
\* after i rows are those the first i rows of its table give under its mapping
\* when normalized from an empty carried date: they depend on this table and
\* this mapping only.
C17_FreshEachImport ==
    /\ pc = "loop" => (prev_date = "" /\ i = 0 /\ records = <<>> /\ resolved = <<>>)
    /\ (InLoop \/ pc = "done") =>
           records = Normalize(SubSeq(SessionTable(df_len), 1, i), mapping)

\* a second import, of the table of one row, after an import that ended with
\* the carried date 2024-02-10 and stored two logs: its row without a date is
\* emitted without a date
C17_Witness ==
    /\ pc = "done"
    /\ df_len = 1
    /\ mapping = DefaultMapping
    /\ Len(work_logs) = 3
    /\ work_logs[2].work_date = "2024-02-10"
    /\ Len(records) = 1
    /\ records[1].work_date = ""
    /\ work_logs[3].work_date = ""

\* C18: a started import reaches the lines after the loop; until then the
\* loop has read the first i rows of the table, one per iteration and in
\* their order, never more than the table has, and each iteration leaves the
\* record list as it was or appends the record of its row at the end: the
\* records are in the order of their rows and never more than the rows read.
C18_Terminates ==
    /\ []((InLoop \/ pc = "done") =>
              (i <= df_len /\ Len(resolved) = i /\ Len(records) <= i))
    /\ [](pc = "done" => i = df_len)
    /\ [][InLoop' => (i' = i \/ i' = i + 1)]_vars
    /\ [][i' = i + 1 =>
            /\ row' = SessionTable(df_len)[i']
            /\ \/ records' = records
               \/ records' = Append(records, Record(work_date', row', mapping))]_vars
    /\ (pc = "loop" ~> pc = "done")

\* an import of two rows has ended with one record: the date column was not
\* mapped and the second row, without content, was dropped
C18_Witness ==
    /\ pc = "done"
    /\ df_len = 2
    /\ i = 2
    /\ mapping.date = NONE_LABEL
    /\ Len(records) = 1
    /\ message = "success"

C21_FormStatusAccepted ==
    db_call \in {"create_crop_cycle", "update_crop_cycle"} => message # "exception"

(***************************************************************************)
(* SpecStore: the app started on a store that exists already, created      *)
(* under the old or the new status constraint (src/database.py).           *)
(***************************************************************************)
STATUS_NURSERY == "nursery"
STATUS_ENDED == "ended"

\* the values old_check accepts
OLD_STATUS_OPTIONS == {STATUS_PLANNED, STATUS_IN_PROGRESS, STATUS_COMPLETED}

\* the statuses get_dashboard_stats counts as active
ACTIVE_STATUSES == {STATUS_NURSERY, "harvest starts soon", "harvesting", "harvest ends soon"}

\* the status filter of the dashboard's list
DASHBOARD_STATUS_FILTER == STATUS_IN_PROGRESS

\* variant: the status copied as it is
MigratedStatusKept(status) == status

\* the CASE expression of the INSERT ... SELECT
MigratedStatus(status) ==
    IF status = STATUS_IN_PROGRESS THEN STATUS_NURSERY
    ELSE IF status = STATUS_COMPLETED THEN STATUS_ENDED
    ELSE status

\* INSERT INTO crop_cycles ... SELECT ... FROM crop_cycles_old
MigratedCycles(cycles) ==
    [k \in 1..Len(cycles) |-> [cycles[k] EXCEPT !.status = MigratedStatus(@)]]

RECURSIVE MaxId(_)
MaxId(table) ==
    IF table = <<>> THEN 0
    ELSE LET m == MaxId(Tail(table))
         IN  IF Head(table).id > m THEN Head(table).id ELSE m

\* ALTER TABLE crop_cycles RENAME TO crop_cycles_old, run with foreign keys
\* off: SQLite from 3.26 on rewrites the REFERENCES clause of work_logs to the
\* new name, older versions leave it
RenamedParents == {TABLE_CROP_CYCLES, TABLE_CROP_CYCLES_OLD}

\* SELECT COUNT(*) ... of get_dashboard_stats
CountCycles(cycles, statuses) ==
    Cardinality({k \in 1..Len(cycles) : cycles[k].status \in statuses})

get_dashboard_stats(cycles, logs) ==
    [total_cycles |-> Len(cycles),
     active_cycles |-> CountCycles(cycles, ACTIVE_STATUSES),
     completed_cycles |-> CountCycles(cycles, {STATUS_ENDED}),
     total_logs |-> Len(logs)]

RECURSIVE Reverse(_)
Reverse(seq) == IF seq = <<>> THEN <<>> ELSE Append(Reverse(Tail(seq)), Head(seq))

\* get_all_crop_cycles(status_filter=...); the cycles of the model have one
\* start date, so that ORDER BY ..., id DESC is the order of falling ids
get_all_crop_cycles(cycles, status_filter) ==
    Reverse(SelectSeq(cycles, LAMBDA cy : cy.status = status_filter))

\* active[:10]
First10(seq) == SubSeq(seq, 1, IF Len(seq) < 10 THEN Len(seq) ELSE 10)

\* SELECT * FROM work_logs WHERE cycle_id = ?
get_work_logs_by_cycle(logs, cycle_id) ==
    SelectSeq(logs, LAMBDA l : l.cycle_id = cycle_id)

\* UPDATE work_logs SET cycle_id = NULL WHERE id = ?
unlink_work_log_from_cycle(logs, log_id) ==
    [k \in 1..Len(logs) |->
        IF logs[k].id = log_id THEN [logs[k] EXCEPT !.cycle_id = NoCycle]
        ELSE logs[k]]

\* db.init_db() of line 113 of src/app.py, in a script run with no event:
\* a store under old_check is rebuilt, any other is left as it is
InitDb ==
    /\ pc \in {"start", "idle"}
    /\ pc' = "idle"
    /\ db_call' = "init_db"
    /\ count' = None
    /\ message' = ""
    /\ IF create_sql = OLD_CHECK
       THEN /\ create_sql' = NEW_CHECK
            /\ references' \in RenamedParents
            /\ crop_cycles' = MigratedCycles(crop_cycles)
            /\ cycle_seq' = MaxId(crop_cycles)
       ELSE UNCHANGED <<schema, crop_cycles, cycle_seq>>
    /\ FreshLocals
    /\ UNCHANGED <<session, upload, work_logs, log_seq, sync>>

\* a call of unlink_work_log_from_cycle; no page of src/app.py makes it
UnlinkWorkLog(log_id) ==
    /\ Idle
    /\ log_id \in Ids(work_logs)
    /\ pc' = "idle"
    /\ IF ~WorkLogsWritable THEN WriteRaised("unlink_work_log_from_cycle")
       ELSE /\ work_logs' = unlink_work_log_from_cycle(work_logs, log_id)
            /\ db_call' = "unlink_work_log_from_cycle"
            /\ count' = None
            /\ message' = ""
            /\ UNCHANGED <<crop_cycles, log_seq, cycle_seq>>
    /\ FreshLocals
    /\ UNCHANGED <<session, upload, schema, sync>>

\* the crop cycles a store holds: under old_check as the forms of the app
\* store them, under the new constraint as init_db leaves them
StoredStatuses(sql) ==
    IF sql = OLD_CHECK THEN OLD_STATUS_OPTIONS
    ELSE {MigratedStatus(s) : s \in OLD_STATUS_OPTIONS}

StoredCycles(sql) ==
    UNION {[1..n -> [id : 1..MaxCycles, crop_name : {"tomato"},
                     status : StoredStatuses(sql)]] : n \in 0..MaxCycles}

\* the work logs a store holds: none, or one with or without a crop cycle
StoredLogs(cycles) ==
    {<<>>} \cup {create_work_log(<<>>, 0, "2024-03-01", "harvest", cy,
                                 None, None, None, None) :
                    cy \in {NoCycle} \cup Ids(cycles)}

InitStore ==
    /\ pc = "start"
    /\ admin_mode = FALSE
    /\ page = PAGE_DASHBOARD
    /\ uploaded = FALSE
    /\ fails = {}
    /\ tried = <<>>
    /\ df_enc = None
    /\ df_len = -1
    /\ df_example = FALSE
    /\ mapping = NoMapping
    /\ i = 0
    /\ row = NoRow
    /\ raw_date = ""
    /\ prev_date = ""
    /\ work_date = ""
    /\ content = None
    /\ records = <<>>
    /\ resolved = <<>>
    /\ message = ""
    /\ db_call = ""
    /\ count = None
    /\ create_sql \in {OLD_CHECK, NEW_CHECK}
    /\ references = TABLE_CROP_CYCLES
    /\ crop_cycles \in {cs \in StoredCycles(create_sql) :
                           \A k \in 1..Len(cs) : cs[k].id = k}
    /\ cycle_seq \in Len(crop_cycles)..MaxCycles
    /\ work_logs \in StoredLogs(crop_cycles)
    /\ log_seq = Len(work_logs)
    /\ SyncNotStarted

NextStore ==
    \/ InitDb
    \/ Login(ADMIN_PASSWORD)
    \/ \E p \in {PAGE_DASHBOARD, PAGE_WORK_LOG_INPUT, PAGE_CROP_CYCLE_FORM} : Navigate(p)
    \/ (log_seq < MaxLogs /\ \E cy \in 0..MaxCycles :
            SubmitWorkLog("2024-03-01", "harvest", cy, ""))
    \/ \E id \in 1..MaxLogs : DeleteWorkLog(id)
    \/ (cycle_seq < MaxCycles /\ \E k \in 1..Len(STATUS_OPTIONS) :
            SubmitNewCycle("tomato", STATUS_OPTIONS[k]))
    \/ \E id \in 1..MaxCycles : DeleteCycle(id)
    \/ \E id \in 1..MaxLogs, cy \in 1..MaxCycles : LinkWorkLog(id, cy)
    \/ \E id \in 1..MaxLogs : UnlinkWorkLog(id)

SpecStore == InitStore /\ [][NextStore]_vars

(***************************************************************************)
(* Properties of the store (SpecStore).                                    *)
(***************************************************************************)
\* C22: on the dashboard, whenever get_dashboard_stats reports
\* active_cycles > 0, the list of in-progress crop cycles the page shows
\* (get_all_crop_cycles with the page's status filter, first 10) is not empty
\* and holds only cycles counted as active.
C22_DashboardAgrees ==
    (Idle /\ page = PAGE_DASHBOARD) =>
        LET stats == get_dashboard_stats(crop_cycles, work_logs)
            active == First10(get_all_crop_cycles(crop_cycles, DASHBOARD_STATUS_FILTER))
        IN  stats.active_cycles > 0 =>
                /\ active # <<>>
                /\ \A k \in 1..Len(active) : active[k].status \in ACTIVE_STATUSES

\* C23: every work log's cycle_id is NULL or the id of an existing crop
\* cycle; a step that calls delete_crop_cycle removes no work log, sets
\* cycle_id to NULL on the logs linked to the deleted cycle and leaves every
\* other work log as it was.
C23_CycleIdIntegrity ==
    /\ [](\A k \in 1..Len(work_logs) :
              work_logs[k].cycle_id \in {NoCycle} \cup Ids(crop_cycles))
    /\ [][db_call' = "delete_crop_cycle" =>
            /\ Len(work_logs') = Len(work_logs)
            /\ \A k \in 1..Len(work_logs) :
                   work_logs'[k] =
                       IF work_logs[k].cycle_id \in Ids(crop_cycles) \ Ids(crop_cycles')
                       THEN [work_logs[k] EXCEPT !.cycle_id = NoCycle]
                       ELSE work_logs[k]]_vars

\* C24: init_db keeps every crop cycle row with its id and crop name; on a
\* store under the old constraint it rewrites the status in progress to nursery
\* and completed to ended and leaves planned, on any other store it changes no
\* row; afterwards the store is under the new constraint and every status is
\* one the new constraint accepts.
C24_Migration ==
    [][db_call' = "init_db" =>
         /\ create_sql' = NEW_CHECK
         /\ Len(crop_cycles') = Len(crop_cycles)
         /\ \A k \in 1..Len(crop_cycles) :
                /\ crop_cycles'[k].id = crop_cycles[k].id
                /\ crop_cycles'[k].crop_name = crop_cycles[k].crop_name
                /\ crop_cycles'[k].status \in DB_STATUS_OPTIONS
                /\ crop_cycles'[k].status =
                       IF create_sql = OLD_CHECK
                          /\ crop_cycles[k].status = STATUS_IN_PROGRESS THEN STATUS_NURSERY
                       ELSE IF create_sql = OLD_CHECK
                               /\ crop_cycles[k].status = STATUS_COMPLETED THEN STATUS_ENDED
                       ELSE crop_cycles[k].status
         /\ create_sql = NEW_CHECK => UNCHANGED <<crop_cycles, work_logs, schema>>]_vars

\* init_db has run again on a store it had rebuilt: the cycle that was in
\* progress is in the nursery status
C24_Witness ==
    /\ db_call = "init_db"
    /\ create_sql = NEW_CHECK
    /\ references = TABLE_CROP_CYCLES_OLD
    /\ Len(crop_cycles) = 1
    /\ crop_cycles[1].status = STATUS_NURSERY

\* C28: get_unlinked_work_logs returns exactly the work logs whose cycle_id is
\* NULL; a step that calls link_work_log_to_cycle takes an unlinked log out of
\* that list and puts it into get_work_logs_by_cycle of the target cycle, and
\* unlink_work_log_from_cycle on the result gives the table back as it was:
\* both lists restored, no other field and no other log changed; a step that
\* calls unlink_work_log_from_cycle puts its log into the unlinked list and
\* changes nothing but that log's cycle_id.
C28_LinkUnlink ==
    /\ [](Ids(get_unlinked_work_logs(work_logs)) =
              {work_logs[k].id : k \in {j \in 1..Len(work_logs) :
                                           work_logs[j].cycle_id = NoCycle}})
    /\ [][db_call' = "link_work_log_to_cycle" =>
            \E l \in Ids(get_unlinked_work_logs(work_logs)), cy \in Ids(crop_cycles) :
                /\ l \notin Ids(get_unlinked_work_logs(work_logs'))
                /\ l \in Ids(get_work_logs_by_cycle(work_logs', cy))
                /\ l \notin Ids(get_work_logs_by_cycle(work_logs, cy))
                /\ unlink_work_log_from_cycle(work_logs', l) = work_logs]_vars
    /\ [][db_call' = "unlink_work_log_from_cycle" =>
            \E l \in Ids(work_logs) :
                /\ l \in Ids(get_unlinked_work_logs(work_logs'))
                /\ Len(work_logs') = Len(work_logs)
                /\ \A k \in 1..Len(work_logs) :
                       work_logs'[k] = IF work_logs[k].id = l
                                       THEN [work_logs[k] EXCEPT !.cycle_id = NoCycle]
                                       ELSE work_logs[k]]_vars

(***************************************************************************)
(* SpecImportCall: import_csv_records called with any list of records, on  *)
(* a store as init_db may have left it.                                    *)
(***************************************************************************)
\* records as a caller may hand them over: complete, without a date (None
\* under the key work_date), and without the keys that have defaults
RecordPool ==
    {[work_date |-> "2024-03-01", work_type |-> "harvest", field_id |-> None,
      row_id |-> None, content |-> "x", note |-> None],
     [work_date |-> "", work_type |-> DEFAULT_WORK_TYPE, field_id |-> "d01",
      row_id |-> "1", content |-> "y", note |-> "n"],
     [work_date |-> None, work_type |-> "harvest", field_id |-> None,
      row_id |-> None, content |-> "z", note |-> None],
     [content |-> "w"]}

RecordLists == UNION {[1..n -> RecordPool] : n \in 1..MaxRows}

InitCall ==
    /\ pc = "call"
    /\ admin_mode = TRUE
    /\ page = PAGE_CSV_IMPORT
    /\ uploaded = FALSE
    /\ fails = {}
    /\ tried = <<>>
    /\ df_enc = None
    /\ df_len = -1
    /\ df_example = FALSE
    /\ mapping = NoMapping
    /\ i = 0
    /\ row = NoRow
    /\ raw_date = ""
    /\ prev_date = ""
    /\ work_date = ""
    /\ content = None
    /\ records \in RecordLists
    /\ resolved = <<>>
    /\ message = ""
    /\ db_call = ""
    /\ count = None
    /\ create_sql = NEW_CHECK
    /\ references \in RenamedParents
    /\ crop_cycles = <<>>
    /\ cycle_seq = 0
    /\ work_logs \in StoredLogs(crop_cycles)
    /\ log_seq = Len(work_logs)
    /\ SyncNotStarted

\* count = db.import_csv_records(records): the call returns or raises
CallImport ==
    /\ pc = "call"
    /\ db_call' = "import_csv_records"
    /\ work_logs' = import_csv_records(work_logs, log_seq, records, references)
    /\ IF ImportRaises(records, references)
       THEN /\ pc' = "raised"
            /\ UNCHANGED log_seq
            /\ count' = None
            /\ message' = "exception"
       ELSE /\ pc' = "returned"
            /\ log_seq' = log_seq + Len(records)
            /\ count' = imported(records)
            /\ message' = "success"
    /\ UNCHANGED <<session, upload, locals, crop_cycles, cycle_seq, schema, sync>>

NextCall == CallImport

SpecImportCall == InitCall /\ [][NextCall]_vars

\* C25: a call of import_csv_records in which the INSERT of some record fails
\* (a record without work_date or without work_type, or a store whose
\* work_logs cannot be written) raises and leaves the stored work logs and
\* the id counter as before the call; a call in which none fails returns the
\* number of records and has appended one work log per record after the logs
\* stored before.
C25_AllOrNothing ==
    [][(pc = "call" /\ pc' # "call") =>
         IF \/ references # TABLE_CROP_CYCLES
            \/ \E k \in 1..Len(records) :
                   \/ ("work_date" \in DOMAIN records[k] /\ records[k].work_date = None)
                   \/ ("work_type" \in DOMAIN records[k] /\ records[k].work_type = None)
         THEN /\ pc' = "raised"
              /\ work_logs' = work_logs
              /\ log_seq' = log_seq
              /\ count' = None
         ELSE /\ pc' = "returned"
              /\ count' = Len(records)
              /\ Len(work_logs') = Len(work_logs) + Len(records)
              /\ SubSeq(work_logs', 1, Len(work_logs)) = work_logs
              /\ \A k \in 1..Len(records) :
                     work_logs'[Len(work_logs) + k].content = records[k].content]_vars

\* the second INSERT of a call has failed after the first went through: the
\* store holds the one log it held before
C25_Witness ==
    /\ pc = "raised"
    /\ references = TABLE_CROP_CYCLES
    /\ Len(records) = 2
    /\ records[1].content = "x"
    /\ records[2].content = "z"
    /\ Len(work_logs) = 1
    /\ log_seq = 1

(***************************************************************************)
(* Login and logout (SpecSession).                                         *)
(***************************************************************************)
\* C27: admin_mode starts false; a step that turns it on is a login with
\* ADMIN_PASSWORD; a login with any other password leaves admin_mode false
\* and the page as it was; a step that turns admin_mode off sets the page to
\* the dashboard, and no admin page is selected while admin_mode is false.
C27_AdminMode ==
    /\ ~admin_mode
    /\ [][(~admin_mode /\ admin_mode') => Login(ADMIN_PASSWORD)]_vars
    /\ [][(\E pw \in Passwords \ {ADMIN_PASSWORD} : Login(pw)) =>
            (~admin_mode' /\ page' = page)]_vars
    /\ [][(admin_mode /\ ~admin_mode') => page' = PAGE_DASHBOARD]_vars
    /\ [](~admin_mode => page \notin AdminPages)

\* the administrator has logged out of the import page after storing a crop
\* cycle: the dashboard is selected
C27_Witness ==
    /\ ~admin_mode
    /\ page = PAGE_DASHBOARD
    /\ Len(crop_cycles) = 1
    /\ ~uploaded
    /\ db_call = ""

(***************************************************************************)
(* SpecSync: one run of src/sync_to_cloud.py.  A step runs the script up   *)
(* to its next git command, or to its exit.                                *)
(***************************************************************************)
\* the files named at lines 33-37
BaseFiles ==
    {"app.py", "database.py", "requirements.txt", "start.py", "sync_to_cloud.py",
     ".gitignore", ".streamlit/config.toml"}

DB_FILE == "farm_records.db"

\* the two .bat files of line 41
BatFiles == {"start.bat", "sync.bat"}

\* returncode of a git command
ReturnCodes == {0, 1, 128}

\* what a failed git commit has written to stdout and stderr
CommitOutputs ==
    {"nothing to commit, working tree clean", "nothing added to commit", "error"}

\* "nothing to commit" in out or "nothing added to commit" in out
NothingToCommit(out) ==
    out \in {"nothing to commit, working tree clean", "nothing added to commit"}

\* subprocess.run has returned: its command and result
Ran(cmd, files, rc, out) ==
    Append(commands, [cmd |-> cmd, files |-> files, returncode |-> rc, out |-> out])

\* print(...); input(...); sys.exit(code)
ExitWith(text, code) ==
    /\ printed' = Append(printed, text)
    /\ exit_code' = code
    /\ sync_pc' = "exited"

\* the variables of the app
app == <<pc, session, upload, locals, message, db, db_call, count, schema>>

\* lines 21-29: the database file is looked for
SyncCheck(db_exists) ==
    /\ sync_pc = "start"
    /\ IF ~db_exists
       THEN /\ ExitWith("db_missing", 1)
            /\ UNCHANGED commands
       ELSE /\ printed' = Append(printed, "syncing")
            /\ sync_pc' = "add"
            /\ UNCHANGED <<commands, exit_code>>
    /\ UNCHANGED app

\* lines 31-50: the list of files and git add; without git on the path
\* subprocess.run raises FileNotFoundError, which line 80 catches, and the
\* script runs off its end
SyncAdd(git_found, db_exists, bats, rc) ==
    /\ sync_pc = "add"
    /\ IF ~git_found
       THEN /\ ExitWith("git_missing", 0)
            /\ UNCHANGED commands
       ELSE /\ commands' = Ran("add", BaseFiles \cup (IF db_exists THEN {DB_FILE} ELSE {})
                                        \cup bats, rc, "")
            /\ IF rc # 0
               THEN ExitWith("add_failed", 1)
               ELSE /\ sync_pc' = "commit"
                    /\ UNCHANGED <<printed, exit_code>>
    /\ UNCHANGED app

\* lines 52-65: git commit
SyncCommit(rc, out) ==
    /\ sync_pc = "commit"
    /\ commands' = Ran("commit", {}, rc, out)
    /\ IF rc # 0
       THEN IF NothingToCommit(out)
            THEN ExitWith("no_changes", 0)
            ELSE ExitWith("commit_failed", 1)
       ELSE /\ printed' = Append(printed, "pushing")
            /\ sync_pc' = "push"
            /\ UNCHANGED exit_code
    /\ UNCHANGED app

\* lines 67-85: git push, and the end of the script
SyncPush(rc) ==
    /\ sync_pc = "push"
    /\ commands' = Ran("push", {}, rc, "")
    /\ IF rc # 0
       THEN ExitWith("push_failed", 1)
       ELSE ExitWith("success", 0)
    /\ UNCHANGED app

NextSync ==
    \/ \E db_exists \in BOOLEAN : SyncCheck(db_exists)
    \/ \E git_found \in BOOLEAN, db_exists \in BOOLEAN, bats \in SUBSET BatFiles,
          rc \in ReturnCodes : SyncAdd(git_found, db_exists, bats, rc)
    \/ \E rc \in ReturnCodes, out \in CommitOutputs :
          SyncCommit(rc, IF rc = 0 THEN "" ELSE out)
    \/ \E rc \in ReturnCodes : SyncPush(rc)

SpecSync == Init /\ [][NextSync]_vars

\* the names of the git commands run, in order
CommandNames == [k \in 1..Len(commands) |-> commands[k].cmd]

\* the run has ended on a step that failed: a git command returned non-zero
\* with something else than nothing to commit, or git could not be started
FailedStep ==
    \/ "git_missing" \in {printed[k] : k \in 1..Len(printed)}
    \/ /\ commands # <<>>
       /\ commands[Len(commands)].returncode # 0
       /\ ~(commands[Len(commands)].cmd = "commit"
            /\ NothingToCommit(commands[Len(commands)].out))

\* C26: the git commands run are add, commit, push in this order, each after
\* the one before it returned 0; no command is run when farm_records.db is
\* missing, and the exit status is then 1; a commit failing with nothing to
\* commit ends the run with exit status 0 and no push; a run that ends on any
\* other failed step ends with exit status 1; the success message is printed
\* only after push returned 0.
C26_SyncOrder ==
    /\ CommandNames \in {<<>>, <<"add">>, <<"add", "commit">>, <<"add", "commit", "push">>}
    /\ \A k \in 2..Len(commands) : commands[k - 1].returncode = 0
    /\ "db_missing" \in {printed[k] : k \in 1..Len(printed)} =>
           (commands = <<>> /\ exit_code = 1)
    /\ (sync_pc = "exited" /\ commands # <<>>
        /\ commands[Len(commands)].cmd = "commit"
        /\ commands[Len(commands)].returncode # 0
        /\ NothingToCommit(commands[Len(commands)].out)) => exit_code = 0
    /\ (sync_pc = "exited" /\ FailedStep) => exit_code = 1
    /\ "success" \in {printed[k] : k \in 1..Len(printed)} =>
           (Len(commands) = 3 /\ commands[3].cmd = "push" /\ commands[3].returncode = 0)
    /\ sync_pc = "exited" <=> exit_code # NoExit

(***************************************************************************)
(* SpecDate: _convert_date as page_csv_import calls it, on any cell text   *)
(* and any carried date.                                                   *)
(***************************************************************************)
InitDate ==
    /\ pc = "call"
    /\ raw_date \in {Strip(c) : c \in DateCellPool}
    /\ prev_date \in PrevDates
    /\ work_date = ""
    /\ admin_mode = TRUE
    /\ page = PAGE_CSV_IMPORT
    /\ uploaded = TRUE
    /\ fails = {}
    /\ tried = <<ENCODINGS[1]>>
    /\ df_enc = ENCODINGS[1]
    /\ df_len = 1
    /\ df_example = FALSE
    /\ mapping = DefaultMapping
    /\ i = 0
    /\ row = NoRow
    /\ content = None
    /\ records = <<>>
    /\ resolved = <<>>
    /\ message = ""
    /\ work_logs = <<>>
    /\ crop_cycles = <<>>
    /\ log_seq = 0
    /\ cycle_seq = 0
    /\ db_call = ""
    /\ count = None
    /\ NewSchema
    /\ SyncNotStarted

CallConvertDate ==
    /\ pc = "call"
    /\ IF ConvertDateRaises(raw_date) # None
       THEN work_date' = work_date /\ pc' = "error"
       ELSE work_date' = _convert_date(raw_date, prev_date) /\ pc' = "ret"
    /\ UNCHANGED <<raw_date, prev_date, session, upload, i, row, content,
                   records, resolved, message, db, db_call, count>>
    /\ UNCHANGED <<schema, sync>>

\* the date just returned is read again as a date cell, beside any carried
\* date: lines 820-824 on a table made of emitted dates
ReparseDate(p) ==
    /\ pc = "ret"
    /\ work_date # ""
    /\ resolved' = <<work_date>>
    /\ raw_date' = Strip(work_date)
    /\ prev_date' = p
    /\ IF ConvertDateRaises(Strip(work_date)) # None
       THEN work_date' = work_date /\ pc' = "error"
       ELSE work_date' = _convert_date(Strip(work_date), p) /\ pc' = "ret2"
    /\ UNCHANGED <<session, upload, i, row, content, records, message, db,
                   db_call, count>>
    /\ UNCHANGED <<schema, sync>>

NextDate ==
    \/ CallConvertDate
    \/ \E p \in PrevDates : ReparseDate(p)

SpecDate == InitDate /\ [][NextDate]_vars

(***************************************************************************)
(* Properties of _convert_date (SpecDate).                                 *)
(***************************************************************************)
Returned == pc = "ret"

\* the slash form as the claim words it: exactly three parts, each an integer
ThreeIntParts(s) ==
    LET parts == Split(s, "/")
    IN  Len(parts) = 3 /\ \A k \in 1..3 : IntOk(parts[k])

\* what the forms after the slash form give
LaterForms(s, prev) ==
    IF Contains(s, "-") /\ Len(s) = 10 THEN s
    ELSE IF Len(s) = 8 /\ IsDigit(s)
         THEN SubSeq(s, 1, 4) \o "-" \o SubSeq(s, 5, 6) \o "-" \o SubSeq(s, 7, 8)
         ELSE prev

C8_EightDigits ==
    /\ (Returned /\ Len(raw_date) = 8 /\ IsDigit(raw_date)) =>
           /\ Len(work_date) = 10
           /\ SubSeq(work_date, 1, 4) = SubSeq(raw_date, 1, 4)
           /\ SubSeq(work_date, 6, 7) = SubSeq(raw_date, 5, 6)
           /\ SubSeq(work_date, 9, 10) = SubSeq(raw_date, 7, 8)
           /\ Char(work_date, 5) = "-"
           /\ Char(work_date, 8) = "-"
    /\ (Returned /\ raw_date = "20240115") => work_date = "2024-01-15"

C8_Witness == Returned /\ raw_date = "20240115" /\ work_date = "2024-01-15"

\* C13: round trip. A non-empty date returned by _convert_date, read again
\* beside any carried date, comes back as the same string.
C13_RoundTrip == pc = "ret2" => work_date = resolved[1]
====
